---------------------------- MODULE Spec2Model ----------------------------
(***************************************************************************)
(* Model of FrEIA/framework/reversible_graph_net.py: node construction,    *)
(* the topological scheduler, graph assembly (ReversibleGraphNet.__init__) *)
(* and the execution entrypoint (ReversibleGraphNet.forward).              *)
(*                                                                         *)
(* A node is identified by its position (1-based) in the sequence `nodes`  *)
(* of constructed nodes; an edge reference is <<node, slot>> with the      *)
(* 0-based slot of the Python source.  Python lists are sequences, Python  *)
(* sets are sets, a dict is a function over its keys.                      *)
(***************************************************************************)
EXTENDS Integers, Sequences, FiniteSets, TLC

VARIABLES
    nodes,   \* every Node object constructed so far, in construction order
    asm,     \* the call of ReversibleGraphNet.__init__: outcome and locals
    net,     \* attributes of the ReversibleGraphNet object (<<>>: no object)
    call,    \* the last call of ReversibleGraphNet.forward: arguments, outcome
    lookup,  \* a call of get_node_by_name or get_module_by_name, its outcome
    sched    \* a direct call of topological_order: its frame

vars == <<nodes, asm, net, call, lookup, sched>>

---------------------------------------------------------------------------
(* Bounds of the model *)

MaxNodes == 3      \* nodes constructed before the graph is assembled
MaxNamed == 4      \* the same, when the constructors are given names
MaxInputs == 1     \* length of an input list given to a node
SchedNodes == 3    \* nodes of a node list handed directly to the scheduler
MaxEdges == 2      \* dependency edges of such a node list
MaxOut == 2        \* output-boundary nodes of such a node list
MaxCalls == 2      \* calls of forward on one assembled graph
MaxBare == 2       \* length of a list of bare nodes given as an input specification

InDims == {2}          \* declared shapes of InputNodes (a shape is one integer)
CondDims == {3}        \* declared shapes of ConditionNodes
TensorVals == {1, 2}   \* tensors handed to forward
ModuleTypes == {"Scale2", "Split"}   \* transformation kernels a node may wrap

None == "None"
NameArgs == {None, "a"}     \* the name argument of a constructor: None, or a name
LookupNames == {"a", "b"}   \* names looked up; no node is ever named "b"
GraphSelf == 0     \* the ReversibleGraphNet object itself, used as a dict key

---------------------------------------------------------------------------
(* Sequences *)

Range(s) == {s[i] : i \in DOMAIN s}

RECURSIVE Reverse(_)
Reverse(s) == IF s = <<>> THEN <<>> ELSE Append(Reverse(Tail(s)), Head(s))

RECURSIVE SumCard(_, _)
SumCard(f, D) ==
    IF D = {} THEN 0
    ELSE LET d == CHOOSE x \in D : TRUE
         IN  Cardinality(f[d]) + SumCard(f, D \ {d})

\* the sequences over S of length 0..n
SeqUpTo(S, n) == UNION {[1..k -> S] : k \in 0..n}

\* the orders in which the elements of a Python set may be iterated
Orders(S) == {p \in [1..Cardinality(S) -> S] : \A i, j \in DOMAIN p : p[i] = p[j] => i = j}

Distinct(s) == \A i, j \in DOMAIN s : s[i] = s[j] => i = j

---------------------------------------------------------------------------
(* Node construction: Node.__init__ and the three boundary variants *)

\* Node.parse_inputs: an input specification in canonical form, or an error.
\* A specification is a bare node ("node"), one (node, slot) tuple ("pair"),
\* a list of such tuples ("list", its items), a non-empty list of bare nodes
\* ("nodes", its items), or an object that is neither a list nor a node
\* ("object").  A list of two bare nodes is taken for one tuple whose slot is
\* a node: the result then says that its index is a "Node", not an "int".
parse_inputs(inputs) ==
    IF inputs.form \in {"pair", "list", "nodes"}
    THEN LET items == IF inputs.form = "pair" THEN <<inputs.node, inputs.slot>>
                      ELSE inputs.items
         IN  IF Len(items) = 0
             THEN [err |-> None, val |-> items, index |-> "int"]
             ELSE IF inputs.form = "list"
             THEN [err |-> None, val |-> items, index |-> "int"]
             ELSE IF Len(items) = 2
             THEN [err |-> None, val |-> <<items>>,
                   index |-> IF inputs.form = "pair" THEN "int" ELSE "Node"]
             ELSE [err |-> "RuntimeError", val |-> <<>>, index |-> "int"]
    ELSE IF inputs.form = "node"
    THEN [err |-> None, val |-> << <<inputs.node, 0>> >>, index |-> "int"]
    ELSE [err |-> "AssertionError", val |-> <<>>, index |-> "int"]

\* module.output_dims(input_shapes) of the pluggable transformation: "Scale2"
\* keeps every input, "Split" cuts its first input into two halves
ModuleOutputDims(mtype, input_shapes) ==
    IF mtype = "Split" /\ input_shapes # <<>>
    THEN <<input_shapes[1] \div 2, input_shapes[1] \div 2>>
    ELSE input_shapes

\* build_module of Node and of its variants: <<module, output_dims>>
build_module(kind, mtype, dims, condition_shapes, input_shapes) ==
    IF kind \in {"Input", "Condition"}
    THEN IF Len(condition_shapes) > 0 THEN [err |-> "ValueError"]
         ELSE IF Len(input_shapes) # 0 THEN [err |-> "AssertionError"]
         ELSE [err |-> None, module |-> None, output_dims |-> <<dims>>]
    ELSE IF kind = "Output"
    THEN IF Len(condition_shapes) > 0 THEN [err |-> "ValueError"]
         ELSE [err |-> None, module |-> None, output_dims |-> <<>>]
    ELSE [err |-> None, module |-> mtype,
          output_dims |-> ModuleOutputDims(mtype, input_shapes)]

\* the shape lookups of Node.__init__ succeed (no IndexError)
ShapesResolve(ns, inputs, conditions) ==
    /\ \A i \in DOMAIN inputs :
          /\ inputs[i][1] \in DOMAIN ns
          /\ inputs[i][2] + 1 \in DOMAIN ns[inputs[i][1]].output_dims
    /\ \A i \in DOMAIN conditions :
          /\ conditions[i] \in DOMAIN ns
          /\ 1 \in DOMAIN ns[conditions[i]].output_dims

RECURSIVE Notify_Replacing(_, _, _, _)
Notify_Replacing(ns, self, inputs, in_idx) ==
    IF in_idx >= Len(inputs) THEN ns
    ELSE LET in_node == inputs[in_idx + 1][1]
             ns2 == [ns EXCEPT ![in_node].outputs = << <<self, in_idx>> >>]
         IN  Notify_Replacing(ns2, self, inputs, in_idx + 1)

\* "Notify preceding nodes that their output ends up here": append
\* (self, in_idx) to the outputs list of the producer of every input, in order
RECURSIVE Notify(_, _, _, _)
Notify(ns, self, inputs, in_idx) ==
    IF in_idx >= Len(inputs) THEN ns
    ELSE LET in_node == inputs[in_idx + 1][1]
             ns2 == [ns EXCEPT ![in_node].outputs = Append(@, <<self, in_idx>>)]
         IN  Notify(ns2, self, inputs, in_idx + 1)

\* "hex(id(self))[-6:]": the name derived from the identity of the node
DerivedName(self) == ToString(self)

\* Node.__init__: the node list after the construction, or the error raised
NodeInit(ns, kind, inputSpec, mtype, conds, dims, name) ==
    LET parsed == parse_inputs(inputSpec)
        inputs == parsed.val
        self == Len(ns) + 1
    IN  IF parsed.err # None THEN [err |-> parsed.err, nodes |-> ns]
        ELSE IF parsed.index # "int" THEN [err |-> "TypeError", nodes |-> ns]
        ELSE IF ~ShapesResolve(ns, inputs, conds)
        THEN [err |-> "IndexError", nodes |-> ns]
        ELSE
        LET input_shapes == [i \in DOMAIN inputs |->
                                ns[inputs[i][1]].output_dims[inputs[i][2] + 1]]
            condition_shapes == [i \in DOMAIN conds |-> ns[conds[i]].output_dims[1]]
            built == build_module(kind, mtype, dims, condition_shapes, input_shapes)
        IN  IF built.err # None THEN [err |-> built.err, nodes |-> ns]
            ELSE
            LET me == [kind |-> kind,
                       name |-> IF name # None THEN name ELSE DerivedName(self),
                       inputs |-> inputs,
                       conditions |-> conds,
                       outputs |-> <<>>,
                       input_dims |-> input_shapes,
                       condition_dims |-> condition_shapes,
                       output_dims |-> built.output_dims,
                       module |-> built.module]
            IN  [err |-> None, nodes |-> Notify(Append(ns, me), self, inputs, 0)]

\* the edge references a caller may write down: every output slot of every
\* node, and the first slot the node does not have
EdgeRefs == UNION {{<<n, s>> : s \in 0..Len(nodes[n].output_dims)} : n \in 1..Len(nodes)}

InputSpecs ==
    {[form |-> "node", node |-> n] : n \in 1..Len(nodes)}
    \cup {[form |-> "pair", node |-> e[1], slot |-> e[2]] : e \in EdgeRefs}
    \cup {[form |-> "list", items |-> l] : l \in SeqUpTo(EdgeRefs, MaxInputs)}
    \cup {[form |-> "nodes", items |-> l] : l \in SeqUpTo(1..Len(nodes), MaxBare) \ {<<>>}}
    \cup {[form |-> "object"]}

\* conditions: none, or one ConditionNode
CondLists ==
    {<<>>} \cup {<<c>> : c \in {n \in 1..Len(nodes) : nodes[n].kind = "Condition"}}

Building == asm.status = "none" /\ sched.pc = "idle"

CanConstruct == Building /\ Len(nodes) < MaxNodes

\* a constructor call that raises leaves no node behind and changes none
Construct(kind, inputSpec, mtype, conds, dims, name) ==
    LET r == NodeInit(nodes, kind, inputSpec, mtype, conds, dims, name)
    IN  /\ r.err = None
        /\ nodes' = r.nodes
        /\ UNCHANGED <<asm, net, call, lookup, sched>>

NoInputs == [form |-> "list", items |-> <<>>]

\* the constructors called without a name
NewInputNode ==
    /\ CanConstruct
    /\ \E d \in InDims : Construct("Input", NoInputs, None, <<>>, d, None)

NewConditionNode ==
    /\ CanConstruct
    /\ \E d \in CondDims : Construct("Condition", NoInputs, None, <<>>, d, None)

NewOutputNode ==
    /\ CanConstruct
    /\ \E i \in InputSpecs : Construct("Output", i, None, <<>>, 0, None)

NewNode ==
    /\ CanConstruct
    /\ \E i \in InputSpecs, m \in ModuleTypes, c \in CondLists :
          Construct("Node", i, m, c, 0, None)

\* the constructors called with the name argument, given or None
CanConstructNamed == Building /\ Len(nodes) < MaxNamed

NamedInputNode ==
    /\ CanConstructNamed
    /\ \E d \in InDims, name \in NameArgs :
          Construct("Input", NoInputs, None, <<>>, d, name)

NamedConditionNode ==
    /\ CanConstructNamed
    /\ \E d \in CondDims, name \in NameArgs :
          Construct("Condition", NoInputs, None, <<>>, d, name)

NamedOutputNode ==
    /\ CanConstructNamed
    /\ \E i \in InputSpecs, name \in NameArgs :
          Construct("Output", i, None, <<>>, 0, name)

NamedNode ==
    /\ CanConstructNamed
    /\ \E i \in InputSpecs, m \in ModuleTypes, c \in CondLists, name \in NameArgs :
          Construct("Node", i, m, c, 0, name)

---------------------------------------------------------------------------
(* The topological scheduler: topological_order *)

\* "Edge dicts in both directions": the frame at the start of Kahn's loop
SchedFrame(ns, all_nodes, in_nodes, out_nodes) ==
    LET keys == Range(all_nodes \o out_nodes)
        eoi == [b \in keys |-> {ns[b].inputs[i][1] : i \in DOMAIN ns[b].inputs}]
        eio == [a \in 1..Len(ns) |-> {b \in keys : a \in eoi[b]}]
    IN  [in_nodes |-> in_nodes,
         edges_out_to_in |-> eoi,
         edges_in_to_out |-> eio,
         sorted_nodes |-> <<>>,
         no_pending_edges |-> out_nodes,
         status |-> "running",
         result |-> <<>>]

\* one iteration of the while loop: the frames it may leave, one per order in
\* which the set edges_out_to_in[node] is iterated
KahnStep(f) ==
    LET node == Head(f.no_pending_edges)
        rest == Tail(f.no_pending_edges)
        srt == Append(f.sorted_nodes, node)
    IN  IF node \notin DOMAIN f.edges_out_to_in
        THEN {[f EXCEPT !.sorted_nodes = srt, !.no_pending_edges = rest,
                        !.status = "KeyError"]}
        ELSE
        LET ins == f.edges_out_to_in[node]
            eio == [a \in DOMAIN f.edges_in_to_out |->
                      IF a \in ins THEN f.edges_in_to_out[a] \ {node}
                      ELSE f.edges_in_to_out[a]]
            Freed(a) == eio[a] = {}
        IN  {[f EXCEPT !.sorted_nodes = srt,
                       !.edges_out_to_in[node] = {},
                       !.edges_in_to_out = eio,
                       !.no_pending_edges = rest \o SelectSeq(p, Freed)]
             : p \in Orders(ins)}

InputsReached_Unchecked(in_nodes, sorted_nodes) == TRUE

\* the check after the loop that every in_node was reached
InputsReached(in_nodes, sorted_nodes) ==
    \A i \in DOMAIN in_nodes : in_nodes[i] \in Range(sorted_nodes)

PendingEdges_Ignored(edges_in_to_out) == 0

\* sum(map(len, edges_in_to_out.values()))
PendingEdges(edges_in_to_out) == SumCard(edges_in_to_out, DOMAIN edges_in_to_out)

\* the code after the loop: the asserts, then the order or "Graph is cyclic."
KahnEnd(f) ==
    IF ~InputsReached(f.in_nodes, f.sorted_nodes)
    THEN [f EXCEPT !.status = "AssertionError"]
    ELSE IF PendingEdges(f.edges_in_to_out) = 0
    THEN [f EXCEPT !.status = "ok", !.result = Reverse(f.sorted_nodes)]
    ELSE [f EXCEPT !.status = "ValueError"]

\* the loop run to its end: every frame it may end in
RECURSIVE KahnRun(_)
KahnRun(f) ==
    IF f.status # "running" THEN {f}
    ELSE IF f.no_pending_edges = <<>> THEN {KahnEnd(f)}
    ELSE UNION {KahnRun(g) : g \in KahnStep(f)}

topological_order(ns, all_nodes, in_nodes, out_nodes) ==
    KahnRun(SchedFrame(ns, all_nodes, in_nodes, out_nodes))

---------------------------------------------------------------------------
(* Graph assembly: ReversibleGraphNet.__init__ *)

OfKind(ns, node_list, kind) == SelectSeq(node_list, LAMBDA n : ns[n].kind = kind)

\* the boundary nodes: picked by the deprecated index when one is given
\* (ind is None, or one 0-based int ind.i), detected by variant otherwise
Boundary(ns, node_list, ind, kind) ==
    IF ind.given THEN <<node_list[ind.i + 1]>> ELSE OfKind(ns, node_list, kind)

NoAsm == [status |-> "none", in_nodes |-> <<>>, out_nodes |-> <<>>,
          condition_nodes |-> <<>>, node_list |-> <<>>]

\* the constructor's outcomes: <<asm, net>> pairs
GraphInit(ns, ind_in, ind_out, force_tuple_output) ==
    LET node_list == [i \in 1..Len(ns) |-> i]
        in_nodes == Boundary(ns, node_list, ind_in, "Input")
        out_nodes == Boundary(ns, node_list, ind_out, "Output")
        condition_nodes == OfKind(ns, node_list, "Condition")
        Fail(e, order) == <<[status |-> e, in_nodes |-> in_nodes, out_nodes |-> out_nodes,
                             condition_nodes |-> condition_nodes, node_list |-> order],
                            <<>> >>
    IN  IF Len(in_nodes) = 0 \/ Len(out_nodes) = 0
        THEN {Fail("AssertionError", <<>>)}
        ELSE
        {   IF f.status # "ok" THEN Fail(f.status, <<>>)
            ELSE IF \/ \E i \in DOMAIN in_nodes : ns[in_nodes[i]].output_dims = <<>>
                    \/ \E i \in DOMAIN out_nodes : ns[out_nodes[i]].input_dims = <<>>
                    \/ \E i \in DOMAIN condition_nodes :
                          ns[condition_nodes[i]].input_dims = <<>>
            THEN Fail("IndexError", f.result)
            ELSE << [status |-> "ok", in_nodes |-> in_nodes, out_nodes |-> out_nodes,
                     condition_nodes |-> condition_nodes, node_list |-> f.result],
                    [dims_in |-> [i \in DOMAIN in_nodes |-> ns[in_nodes[i]].output_dims[1]],
                     dims_c |-> [i \in DOMAIN condition_nodes |->
                                    ns[condition_nodes[i]].input_dims[1]],
                     global_out_shapes |-> [i \in DOMAIN out_nodes |->
                                              ns[out_nodes[i]].input_dims[1]],
                     in_nodes |-> in_nodes,
                     condition_nodes |-> condition_nodes,
                     out_nodes |-> out_nodes,
                     force_tuple_output |-> force_tuple_output,
                     module_list |-> [i \in DOMAIN f.result |-> ns[f.result[i]].module]] >>
          : f \in topological_order(ns, in_nodes, node_list, out_nodes) }

NoIndex == [given |-> FALSE]
Indices == {NoIndex} \cup {[given |-> TRUE, i |-> k] : k \in 0..(Len(nodes) - 1)}

\* The node list handed over is every constructed node, in construction
\* order; input nodes are detected by variant, output nodes are detected or
\* named by the deprecated ind_out.
Assemble ==
    /\ Building
    /\ Len(nodes) > 0
    /\ \E ind_out \in Indices, force \in BOOLEAN :
       \E r \in GraphInit(nodes, NoIndex, ind_out, force) :
          /\ asm' = r[1]
          /\ net' = r[2]
    /\ UNCHANGED <<nodes, call, lookup, sched>>

---------------------------------------------------------------------------
(* The pluggable transformations (FrEIA.modules): the execution contract   *)
(* evaluate(inputs, conditions?, direction, track_jacobian) ->             *)
(* (outputs, jacobian_or_absent).  A transformation scales every tensor by *)
(* 2 (log-Jacobian LogTwo); how far it keeps the contract is the call's    *)
(* behaviour beh:                                                          *)
(*   beh.ret    what it returns: "pair", a "tensor" only, or a "triple"    *)
(*   beh.extra  how many outputs it returns beyond the contract's count    *)
(*   beh.jac    its Jacobian: "match" (a tensor exactly when tracking is   *)
(*              on), always a "tensor", always "None", or "other" (a       *)
(*              value that is neither a tensor nor None)                   *)
(***************************************************************************)
LogTwo == 1

Honest == [ret |-> "pair", extra |-> 0, jac |-> "match"]

\* the contract kept, or broken in one way
Behaviours ==
    {Honest}
    \cup {[Honest EXCEPT !.ret = r] : r \in {"tensor", "triple"}}
    \cup {[Honest EXCEPT !.extra = 1]}
    \cup {[Honest EXCEPT !.jac = j] : j \in {"tensor", "None", "other"}}

NoJac == [kind |-> "None"]
JacTensor(v) == [kind |-> "tensor", v |-> v]

ModuleCall(node, mod_in, rev, jac, beh) ==
    LET n == (IF rev THEN Len(node.inputs) ELSE Len(node.output_dims)) + beh.extra
        In(i) == IF i \in DOMAIN mod_in THEN mod_in[i]
                 ELSE IF mod_in # <<>> THEN mod_in[1] ELSE 0
        Val(i) == IF rev THEN In(i) \div 2 ELSE 2 * In(i)
        j == JacTensor(IF rev THEN 0 - LogTwo ELSE LogTwo)
    IN  [ret |-> beh.ret,
         out |-> [i \in 1..n |-> Val(i)],
         jac |-> CASE beh.jac = "match" -> (IF jac THEN j ELSE NoJac)
                   [] beh.jac = "tensor" -> j
                   [] beh.jac = "None" -> NoJac
                   [] OTHER -> [kind |-> "other"]]

---------------------------------------------------------------------------
(* Execution: ReversibleGraphNet.forward *)

\* outs[key] = value
Put(outs, key, value) == (key :> value) @@ outs

\* "for tensor, node in zip(tensors, start_nodes): outs[node, 0] = tensor"
RECURSIVE Seed(_, _, _, _)
Seed(outs, tensors, start_nodes, i) ==
    IF i > Len(tensors) \/ i > Len(start_nodes) THEN outs
    ELSE Seed(Put(outs, <<start_nodes[i], 0>>, tensors[i]), tensors, start_nodes, i + 1)

\* the table key under which the loop stores an output of `node`
OutKey(node, out_idx) == <<GraphSelf, out_idx>>

\* "for out_idx, out_value in enumerate(out): outs[self, out_idx] = out_value"
RECURSIVE WriteOuts(_, _, _, _)
WriteOuts(outs, node, out, i) ==
    IF i > Len(out) THEN outs
    ELSE WriteOuts(Put(outs, OutKey(node, i - 1), out[i]), node, out, i + 1)

\* the length the loop expects of a transformation's output list
ExpectedOutputs(n, rev) == IF rev THEN Len(n.inputs) ELSE Len(n.outputs)

\* the check of the returned Jacobian against the tracking flag: TRUE = raise
JacobianRejected(mod_jac, jac) ==
    IF mod_jac.kind # "tensor"
    THEN IF jac THEN TRUE
         ELSE ~jac /\ mod_jac.kind # "None"
    ELSE FALSE

\* "jacobian = jacobian + mod_jac": the sum, or a TypeError when an operand is
\* None
AddJacobian(jacobian, mod_jac) ==
    IF jacobian.kind = "tensor" /\ mod_jac.kind = "tensor"
    THEN [err |-> None, val |-> JacTensor(jacobian.v + mod_jac.v)]
    ELSE [err |-> "TypeError", val |-> jacobian]

\* the nodes whose tensors a call returns
ReturnedNodes(g, rev) == g.out_nodes

\* the body of the loop for one node; st is <<outs, jacobian>> with the
\* outcome so far
VisitNode(ns, st, id, rev, jac, beh) ==
    LET node == ns[id]
        edges == IF rev THEN node.outputs ELSE node.inputs
        reads == {edges[i] : i \in DOMAIN edges}
                 \cup {<<node.conditions[i], 0>> : i \in DOMAIN node.conditions}
        seen == [node |-> id, reads |-> reads, written |-> DOMAIN st.outs]
        st1 == [st EXCEPT !.visits = Append(@, seen)]
        Raise(e) == [st1 EXCEPT !.status = e, !.errnode = id]
    IN  IF ~(reads \subseteq DOMAIN st.outs) THEN Raise("KeyError")
        ELSE IF node.module = None THEN Raise("TypeError")
        ELSE
        LET mod_in == [i \in DOMAIN edges |-> st.outs[edges[i]]]
            mod_out == ModuleCall(node, mod_in, rev, jac, beh)
            st2 == [st1 EXCEPT !.returned = Append(@, mod_out.jac)]
            Reject(e) == [st2 EXCEPT !.status = e, !.errnode = id]
        IN  IF mod_out.ret # "pair" THEN Reject("ValueError")
            ELSE IF Len(mod_out.out) # ExpectedOutputs(node, rev) THEN Reject("ValueError")
            ELSE IF JacobianRejected(mod_out.jac, jac) THEN Reject("ValueError")
            ELSE
            LET outs == WriteOuts(st.outs, id, mod_out.out, 1)
                sum == AddJacobian(st.jacobian, mod_out.jac)
            IN  IF jac /\ sum.err # None THEN Reject(sum.err)
                ELSE [st2 EXCEPT !.outs = outs,
                                 !.jacobian = IF jac THEN sum.val ELSE @]

\* "for node in self.node_list[::-1 if rev else 1]"
RECURSIVE Walk(_, _, _, _, _, _)
Walk(ns, st, order, rev, jac, beh) ==
    IF st.status # "ok" \/ order = <<>> THEN st
    ELSE Walk(ns, VisitNode(ns, st, Head(order), rev, jac, beh), Tail(order),
              rev, jac, beh)

\* the value returned after the loop
Returned(g, st, rev, intermediate_outputs) ==
    LET ret_nodes == ReturnedNodes(g, rev)
    IN  IF intermediate_outputs THEN [st EXCEPT !.ret = [form |-> "table", val |-> st.outs]]
        ELSE IF \E i \in DOMAIN ret_nodes : <<ret_nodes[i], 0>> \notin DOMAIN st.outs
        THEN [st EXCEPT !.status = "KeyError"]
        ELSE LET out_list == [i \in DOMAIN ret_nodes |-> st.outs[<<ret_nodes[i], 0>>]]
             IN  IF Len(out_list) = 1 /\ ~g.force_tuple_output
                 THEN [st EXCEPT !.ret = [form |-> "tensor", val |-> out_list[1]]]
                 ELSE [st EXCEPT !.ret = [form |-> "tuple", val |-> out_list]]

NewTable_Stale == (<<GraphSelf, 1>> :> 1)

\* "outs = {}": the table a call starts with
NewTable == <<>>

\* forward(x_or_z, c, rev, jac, intermediate_outputs) on the graph object g
forward(ns, g, x_or_z, c, rev, jac, intermediate_outputs, beh) ==
    LET seeded == Seed(Seed(NewTable, x_or_z, IF rev THEN g.out_nodes ELSE g.in_nodes, 1),
                       c, g.condition_nodes, 1)
        st0 == [status |-> "ok", errnode |-> 0, outs |-> seeded, jacobian |-> NoJac,
                visits |-> <<>>, returned |-> <<>>, ret |-> [form |-> "none"]]
    IN  IF "node_list" \notin DOMAIN g
        THEN [st0 EXCEPT !.status = "AttributeError"]
        ELSE LET st == Walk(ns, st0, IF rev THEN Reverse(g.node_list) ELSE g.node_list,
                            rev, jac, beh)
             IN  IF st.status # "ok" THEN st
                 ELSE Returned(g, st, rev, intermediate_outputs)

\* the record of a call: its outcome, its locals at its end, its arguments,
\* and its number n in the sequence of calls on the graph
CallRecord(r, x, c, rev, jac, inter, beh, n) ==
    [status |-> r.status, errnode |-> r.errnode, ret |-> r.ret,
     outs |-> r.outs, jacobian |-> r.jacobian, visits |-> r.visits,
     returned |-> r.returned,
     x |-> x, c |-> c, rev |-> rev, jac |-> jac,
     intermediate_outputs |-> inter, beh |-> beh, n |-> n]

\* the first call on an assembled graph, with any arguments
Forward ==
    /\ asm.status = "ok"
    /\ call.status = "none" /\ lookup.status = "none"
    /\ \E rev \in BOOLEAN, jac \in BOOLEAN, inter \in BOOLEAN, beh \in Behaviours :
       \E x \in [1..Len(IF rev THEN net.out_nodes ELSE net.in_nodes) -> TensorVals],
          c \in [1..Len(net.condition_nodes) -> TensorVals] :
          call' = CallRecord(forward(nodes, net, x, c, rev, jac, inter, beh),
                             x, c, rev, jac, inter, beh, 1)
    /\ UNCHANGED <<nodes, asm, net, lookup, sched>>

\* a further call on the same graph with the inputs and flags of the call
\* before it; forward assigns no attribute of self and of no node
ForwardAgain ==
    /\ asm.status = "ok"
    /\ call.status # "none"
    /\ call.n < MaxCalls
    /\ call' = CallRecord(forward(nodes, net, call.x, call.c, call.rev, call.jac,
                                  call.intermediate_outputs, call.beh),
                          call.x, call.c, call.rev, call.jac,
                          call.intermediate_outputs, call.beh, call.n + 1)
    /\ UNCHANGED <<nodes, asm, net, lookup, sched>>

---------------------------------------------------------------------------
(* Lookup by name: get_node_by_name, get_module_by_name *)

NotFound == [found |-> FALSE]

\* the first node of the list `order` whose name is `name`, or None
RECURSIVE FirstNamed(_, _, _)
FirstNamed(ns, order, name) ==
    IF order = <<>> THEN NotFound
    ELSE IF ns[Head(order)].name = name THEN [found |-> TRUE, node |-> Head(order)]
    ELSE FirstNamed(ns, Tail(order), name)

\* "for node in self.node_list: if node.name == name: return node"
get_node_by_name(ns, g, name) ==
    IF "node_list" \notin DOMAIN g
    THEN [status |-> "AttributeError", ret |-> NotFound]
    ELSE [status |-> "ok", ret |-> FirstNamed(ns, g.node_list, name)]

\* the lookup of the node is outside the try: its error is not caught; the
\* AttributeError of None.module is
get_module_by_name(ns, g, name) ==
    LET node == get_node_by_name(ns, g, name)
    IN  IF node.status # "ok" THEN node
        ELSE IF ~node.ret.found THEN [status |-> "ok", ret |-> NotFound]
        ELSE [status |-> "ok",
              ret |-> [found |-> TRUE, module |-> ns[node.ret.node].module]]

\* a lookup changes nothing, so the model follows a graph either into a
\* lookup or into calls of forward
GetNodeByName ==
    /\ asm.status = "ok"
    /\ lookup.status = "none" /\ call.status = "none"
    /\ \E name \in LookupNames :
          lookup' = [fn |-> "get_node_by_name", name |-> name]
                    @@ get_node_by_name(nodes, net, name)
    /\ UNCHANGED <<nodes, asm, net, call, sched>>

GetModuleByName ==
    /\ asm.status = "ok"
    /\ lookup.status = "none" /\ call.status = "none"
    /\ \E name \in LookupNames :
          lookup' = [fn |-> "get_module_by_name", name |-> name]
                    @@ get_module_by_name(nodes, net, name)
    /\ UNCHANGED <<nodes, asm, net, call, sched>>

---------------------------------------------------------------------------
(* The scheduler called directly on a node list whose nodes' inputs are     *)
(* arbitrary (a list put together by hand may hold a cycle), one iteration  *)
(* of its loop at a time.                                                   *)

RECURSIVE Ascending(_)
Ascending(S) ==
    IF S = {} THEN <<>>
    ELSE LET m == CHOOSE x \in S : \A y \in S : x <= y
         IN  <<m>> \o Ascending(S \ {m})

\* a node whose inputs are slot 0 of each of the producers P
PlainNode(P) ==
    [kind |-> "Node", name |-> "node", inputs |-> [i \in 1..Cardinality(P) |-> <<Ascending(P)[i], 0>>],
     conditions |-> <<>>, outputs |-> <<>>, input_dims |-> <<>>,
     condition_dims |-> <<>>, output_dims |-> <<>>, module |-> None]

\* the node lists of SchedNodes nodes with at most MaxEdges dependency edges
NodeLists ==
    {[b \in 1..SchedNodes |-> PlainNode({a \in 1..SchedNodes : <<a, b>> \in E})]
     : E \in {F \in SUBSET ((1..SchedNodes) \X (1..SchedNodes)) : Cardinality(F) <= MaxEdges}}

ScheduleCall ==
    /\ sched.pc = "idle"
    /\ \E ins \in SUBSET (1..Len(nodes)),
          outs \in {o \in SeqUpTo(1..Len(nodes), MaxOut) : Distinct(o)} :
          sched' = [pc |-> "loop", out_nodes |-> outs]
                   @@ SchedFrame(nodes, [i \in 1..Len(nodes) |-> i], Ascending(ins), outs)
    /\ UNCHANGED <<nodes, asm, net, call, lookup>>

KahnLoop ==
    /\ sched.pc = "loop"
    /\ sched.status = "running"
    /\ sched.no_pending_edges # <<>>
    /\ sched' \in KahnStep(sched)
    /\ UNCHANGED <<nodes, asm, net, call, lookup>>

KahnReturn ==
    /\ sched.pc = "loop"
    /\ sched.status = "running"
    /\ sched.no_pending_edges = <<>>
    /\ sched' = [KahnEnd(sched) EXCEPT !.pc = "done"]
    /\ UNCHANGED <<nodes, asm, net, call, lookup>>

---------------------------------------------------------------------------
NoCall == [status |-> "none"]
NoLookup == [status |-> "none"]
NoSched == [pc |-> "idle"]

Init ==
    /\ nodes = <<>>
    /\ asm = NoAsm
    /\ net = <<>>
    /\ call = NoCall
    /\ lookup = NoLookup
    /\ sched = NoSched

Next ==
    \/ NewInputNode
    \/ NewConditionNode
    \/ NewOutputNode
    \/ NewNode
    \/ Assemble
    \/ Forward
    \/ ForwardAgain

Spec == Init /\ [][Next]_vars

\* graphs of named nodes, with the lookups by name
NextNamed ==
    \/ NamedInputNode
    \/ NamedConditionNode
    \/ NamedOutputNode
    \/ NamedNode
    \/ Assemble
    \/ Forward
    \/ GetNodeByName
    \/ GetModuleByName

SpecNamed == Init /\ [][NextNamed]_vars

InitSched ==
    /\ nodes \in NodeLists
    /\ asm = NoAsm
    /\ net = <<>>
    /\ call = NoCall
    /\ lookup = NoLookup
    /\ sched = NoSched

NextSched ==
    \/ ScheduleCall
    \/ KahnLoop
    \/ KahnReturn

SpecSched == InitSched /\ [][NextSched]_vars

---------------------------------------------------------------------------
(* The dependency graph of the node list, for the statements below *)

Producers(n) == {nodes[n].inputs[i][1] : i \in DOMAIN nodes[n].inputs}
Consumers(n) == {m \in 1..Len(nodes) : n \in Producers(m)}

\* the nodes reachable from S along dependency edges (producer to consumer)
\* that stay inside W
RECURSIVE Downstream(_, _)
Downstream(S, W) ==
    LET T == S \cup {m \in W : Producers(m) \cap S # {}}
    IN  IF T = S THEN S ELSE Downstream(T, W)

AllNodes == 1..Len(nodes)

\* n is connected by a path (of any length, 0 included) to one of the nodes outs
ConnectedTo(n, outs) == Downstream({n}, AllNodes) \cap Range(outs) # {}

Transformations == {n \in AllNodes : nodes[n].module # None}

Assembled == asm.status = "ok"
AssemblyEnded == asm.status # "none"
CallEnded == call.status # "none"

---------------------------------------------------------------------------
(* C1: for every valid node list (dependency order, acyclic, every node on *)
(* a path to an output-boundary node) graph assembly computes an order in  *)
(* which every node comes after all producers of its inputs, and whose     *)
(* reverse has every node after all consumers of its outputs.              *)

ValidNodeList ==
    /\ asm.in_nodes # <<>>
    /\ asm.out_nodes # <<>>
    /\ \A n \in AllNodes : Producers(n) \subseteq 1..(n - 1)
    /\ \A n \in AllNodes : ConnectedTo(n, asm.out_nodes)
    /\ \A i \in DOMAIN asm.out_nodes : nodes[asm.out_nodes[i]].inputs # <<>>

OrderValid(order) ==
    /\ AllNodes \subseteq Range(order)
    /\ \A i, j \in DOMAIN order : order[j] \in Producers(order[i]) => j < i
    /\ LET back == Reverse(order)
       IN  \A i, j \in DOMAIN back : back[j] \in Consumers(back[i]) => j < i

C1_OrderRespectsDependencies ==
    (AssemblyEnded /\ ValidNodeList) => (Assembled /\ OrderValid(asm.node_list))

---------------------------------------------------------------------------
(* C2: on an assembled graph whose transformations keep the contract and   *)
(* are invertible, a forward call on x followed by a backward call on its  *)
(* result returns x, and the two log-Jacobians sum to zero.                *)

AsList(ret) == IF ret.form = "tensor" THEN <<ret.val>> ELSE ret.val

C2_RoundTrip ==
    (CallEnded /\ ~call.rev /\ call.jac /\ ~call.intermediate_outputs /\ call.beh = Honest)
    => /\ call.status = "ok"
       /\ LET back == forward(nodes, net, AsList(call.ret), call.c, TRUE, TRUE, FALSE, Honest)
          IN  /\ back.status = "ok"
              /\ AsList(back.ret) = call.x
              /\ call.jacobian.kind = "tensor"
              /\ back.jacobian.kind = "tensor"
              /\ call.jacobian.v + back.jacobian.v = 0

---------------------------------------------------------------------------
(* C3: the graph Input -> Node(scale by 2, one output) -> Output is        *)
(* assembled; forward([x], jac) returns (2*x, LogTwo) and                  *)
(* backward([2*x], jac) returns (x, -LogTwo).                              *)

ScaleChain ==
    /\ Len(nodes) = 3
    /\ nodes[1].kind = "Input"
    /\ nodes[2].kind = "Node" /\ nodes[2].module = "Scale2"
    /\ nodes[2].inputs = << <<1, 0>> >> /\ nodes[2].conditions = <<>>
    /\ nodes[3].kind = "Output" /\ nodes[3].inputs = << <<2, 0>> >>
    /\ asm.in_nodes = <<1>> /\ asm.out_nodes = <<3>>

C3_ScaleChainEndToEnd ==
    (AssemblyEnded /\ ScaleChain)
    => /\ Assembled
       /\ \A x \in TensorVals :
            LET fw == forward(nodes, net, <<x>>, <<>>, FALSE, TRUE, FALSE, Honest)
                bw == forward(nodes, net, <<2 * x>>, <<>>, TRUE, TRUE, FALSE, Honest)
            IN  /\ fw.status = "ok" /\ AsList(fw.ret) = <<2 * x>>
                /\ fw.jacobian = JacTensor(LogTwo)
                /\ bw.status = "ok" /\ AsList(bw.ret) = <<x>>
                /\ bw.jacobian = JacTensor(0 - LogTwo)

---------------------------------------------------------------------------
(* C4: every execution call walks the scheduled node list (reversed for a  *)
(* backward call), and when a node is visited every table entry it reads   *)
(* (its input edges forward, its recorded output edges backward, and       *)
(* (condition node, 0) for each condition) was written earlier in the call.*)

---------------------------------------------------------------------------
(* C5: without intermediate outputs a call returns the tensors of the      *)
(* output nodes (forward) or of the input nodes (backward) in declared     *)
(* order: one tensor when there is exactly one and tuple output is not     *)
(* forced, an ordered collection otherwise.                                *)

C5_ReturnsBoundaryTensors ==
    (CallEnded /\ ~call.intermediate_outputs /\ call.beh = Honest)
    => /\ call.status = "ok"
       /\ LET ends == IF call.rev THEN net.in_nodes ELSE net.out_nodes
          IN  /\ \A i \in DOMAIN ends : <<ends[i], 0>> \in DOMAIN call.outs
              /\ LET out_list == [i \in DOMAIN ends |-> call.outs[<<ends[i], 0>>]]
                 IN  IF Len(out_list) = 1 /\ ~net.force_tuple_output
                     THEN call.ret = [form |-> "tensor", val |-> out_list[1]]
                     ELSE call.ret = [form |-> "tuple", val |-> out_list]

---------------------------------------------------------------------------
(* C6: with Jacobian tracking on, the accumulator a call returns is the    *)
(* plain sum of the Jacobians returned by the transformations it invoked;  *)
(* with tracking off it is None.                                           *)

RECURSIVE SumJac(_)
SumJac(js) == IF js = <<>> THEN 0 ELSE Head(js).v + SumJac(Tail(js))

C6_AccumulatorIsSum ==
    (CallEnded /\ call.beh = Honest)
    => /\ call.status = "ok"
       /\ call.jac => call.jacobian = JacTensor(SumJac(call.returned))
       /\ ~call.jac => call.jacobian = NoJac

---------------------------------------------------------------------------
(* C7: a call on a graph with a transformation whose returned Jacobian     *)
(* does not match the tracking flag (not a tensor while tracking is on,    *)
(* not None while it is off) raises the contract-violation error naming    *)
(* that node.                                                              *)

JacobianMismatch(beh, jac) ==
    IF jac THEN beh.jac \in {"None", "other"} ELSE beh.jac \in {"tensor", "other"}

C7_JacobianMismatchRaises ==
    (CallEnded /\ Transformations # {} /\ JacobianMismatch(call.beh, call.jac))
    => (call.status = "ValueError" /\ call.errnode \in Transformations)

---------------------------------------------------------------------------
(* C8: a call raises the output-count error naming the node exactly when a *)
(* transformation's output list differs in length from the node's declared *)
(* output slots (forward) or declared inputs (backward).                   *)

C8_OutputCountChecked ==
    (CallEnded /\ Transformations # {} /\ call.beh.ret = "pair" /\ call.beh.jac = "match")
    => IF call.beh.extra # 0
       THEN call.status = "ValueError" /\ call.errnode \in Transformations
       ELSE call.status # "ValueError"

---------------------------------------------------------------------------
(* C9: graph assembly fails whenever some input-boundary node is connected *)
(* by no path to an output-boundary node; when it succeeds, every          *)
(* input-boundary node is in the computed order.                           *)

Unconnected == {n \in Range(asm.in_nodes) : ~ConnectedTo(n, asm.out_nodes)}

C9_UnconnectedInputFails ==
    /\ (AssemblyEnded /\ Unconnected # {}) => ~Assembled
    /\ Assembled => Range(asm.in_nodes) \subseteq Range(asm.node_list)

C9_Witness ==
    /\ asm.status = "AssertionError"
    /\ \E i \in DOMAIN asm.out_nodes : nodes[asm.out_nodes[i]].kind = "Output"
    /\ \E n \in Range(asm.in_nodes) \ Unconnected : TRUE
    /\ Unconnected # {}

---------------------------------------------------------------------------
(* C10: scheduling a node list with a cycle among non-boundary nodes ends  *)
(* in a failure; no order, partial or complete, is ever returned.          *)

Scheduling == sched.pc # "idle"

NonBoundary == AllNodes \ (Range(sched.in_nodes) \cup Range(sched.out_nodes))

\* some non-boundary node lies on a cycle of non-boundary nodes
CycleAmongNonBoundary ==
    \E n \in NonBoundary :
        \E m \in NonBoundary : n \in Producers(m) /\ n \in Downstream({m}, NonBoundary)

C10_CycleNeverScheduled ==
    (Scheduling /\ CycleAmongNonBoundary)
    => /\ sched.status # "ok"
       /\ sched.result = <<>>
       /\ sched.pc = "done" => sched.status \in {"AssertionError", "ValueError"}

C10_Witness ==
    /\ sched.pc = "done"
    /\ CycleAmongNonBoundary
    /\ sched.status = "ValueError"
    /\ sched.sorted_nodes # <<>>

---------------------------------------------------------------------------
(* C11: for a node with two output slots consumed by two different Output  *)
(* nodes, a forward call in intermediate-outputs mode returns a table that *)
(* holds both (node, 0) and (node, 1), each mapped to the corresponding    *)
(* output tensor of the node's transformation.                             *)

\* node n has two output slots, slot 0 consumed by Output o0, slot 1 by Output o1
TwoSlotNode(n, o0, o1) ==
    /\ nodes[n].kind = "Node" /\ Len(nodes[n].output_dims) = 2
    /\ o0 # o1
    /\ nodes[o0].kind = "Output" /\ nodes[o0].inputs = << <<n, 0>> >>
    /\ nodes[o1].kind = "Output" /\ nodes[o1].inputs = << <<n, 1>> >>
    /\ nodes[n].inputs # <<>>
    /\ \A i \in DOMAIN nodes[n].inputs : nodes[nodes[n].inputs[i][1]].kind = "Input"
    /\ \A i \in DOMAIN asm.out_nodes : nodes[asm.out_nodes[i]].kind = "Output"

C11_TwoSlotsRetrievable ==
    \A n, o0, o1 \in AllNodes :
        (AssemblyEnded /\ TwoSlotNode(n, o0, o1))
        => /\ Assembled
           /\ \A x \in [1..Len(net.in_nodes) -> TensorVals], jac \in BOOLEAN :
                LET fw == forward(nodes, net, x, <<>>, FALSE, jac, TRUE, Honest)
                    mod_in == [i \in DOMAIN nodes[n].inputs |-> fw.outs[nodes[n].inputs[i]]]
                    out == ModuleCall(nodes[n], mod_in, FALSE, jac, Honest).out
                IN  /\ fw.status = "ok"
                    /\ fw.ret.form = "table"
                    /\ {<<n, 0>>, <<n, 1>>} \subseteq DOMAIN fw.ret.val
                    /\ fw.ret.val[<<n, 0>>] = out[1]
                    /\ fw.ret.val[<<n, 1>>] = out[2]

---------------------------------------------------------------------------
(* C12: an execution call leaves the assembled graph unchanged (node       *)
(* order, boundary-node lists, every node's inputs, conditions and         *)
(* output-edge list); the table and the accumulator start empty in every   *)
(* call; a call repeated with the same inputs and flags ends as the call   *)
(* before it did.                                                          *)

\* the table keys a call seeds before its loop
SeedKeys(c) ==
    {<<n, 0>> : n \in {(IF c.rev THEN net.out_nodes ELSE net.in_nodes)[i] :
                          i \in 1..Len(c.x)}}
    \cup {<<net.condition_nodes[i], 0>> : i \in 1..Len(c.c)}

Outcome(c) == <<c.status, c.errnode, c.ret, c.outs, c.jacobian>>

SameArguments(c, d) ==
    <<c.x, c.c, c.rev, c.jac, c.intermediate_outputs, c.beh>>
    = <<d.x, d.c, d.rev, d.jac, d.intermediate_outputs, d.beh>>

CallStep ==
    (call' # call)
    => /\ nodes' = nodes /\ asm' = asm /\ net' = net
       /\ call'.visits = <<>> => DOMAIN call'.outs = SeedKeys(call')
       /\ call'.returned = <<>> => call'.jacobian = NoJac
       /\ (call.status # "none" /\ SameArguments(call, call'))
             => Outcome(call') = Outcome(call)

---------------------------------------------------------------------------
(* C13: on an assembled graph get_node_by_name returns the first node in   *)
(* declaration order whose name equals the argument, and None when no node *)
(* has that name; get_module_by_name returns that node's transformation,   *)
(* and None, without raising, when no node has that name.                  *)

Named(name) == {n \in AllNodes : nodes[n].name = name}

FirstDeclared(name) == CHOOSE n \in Named(name) : \A m \in Named(name) : n <= m

C13_LookupByName ==
    (lookup.status # "none")
    => /\ lookup.status = "ok"
       /\ IF Named(lookup.name) = {} THEN lookup.ret = NotFound
          ELSE IF lookup.fn = "get_node_by_name"
          THEN lookup.ret = [found |-> TRUE, node |-> FirstDeclared(lookup.name)]
          ELSE lookup.ret = [found |-> TRUE,
                             module |-> nodes[FirstDeclared(lookup.name)].module]

---------------------------------------------------------------------------
(* C14: parse_inputs maps a bare node to [(node, 0)], one (node, slot)     *)
(* pair to the singleton list of that pair, a list of pairs to itself;     *)
(* every other input specification given to a transformation node (an      *)
(* empty list, a list of bare nodes, ...) is rejected with a construction  *)
(* error.                                                                  *)

C14_InputsNormalized ==
    \A i \in InputSpecs, m \in ModuleTypes :
        LET p == parse_inputs(i)
            r == NodeInit(nodes, "Node", i, m, <<>>, 0, None)
        IN  CASE i.form = "node" ->
                   p.err = None /\ p.val = << <<i.node, 0>> >>
              [] i.form = "pair" ->
                   p.err = None /\ p.val = << <<i.node, i.slot>> >>
              [] i.form = "list" /\ i.items # <<>> ->
                   p.err = None /\ p.val = i.items
              [] OTHER -> r.err # None

---------------------------------------------------------------------------
(* C15: the scheduler raises 'Graph is cyclic.' only when the dependency   *)
(* graph of the node list contains a cycle; an acyclic list, such as one   *)
(* with a node whose outputs nobody consumes, never gets this error.       *)

\* some node lies on a cycle of dependency edges
HasCycle ==
    \E n, m \in AllNodes : n \in Producers(m) /\ n \in Downstream({m}, AllNodes)

C15_CyclicOnlyOnCycle ==
    (sched.pc = "done" /\ sched.status = "ValueError" /\ sched.out_nodes # <<>>)
    => HasCycle

---------------------------------------------------------------------------
(* C20: for every node list the Kahn loop terminates; each node enters the *)
(* frontier at most once, so a returned order contains no node twice.      *)

C20_FrontierEntersOnce ==
    Scheduling
    => /\ Distinct(sched.sorted_nodes \o sched.no_pending_edges)
       /\ Len(sched.sorted_nodes) <= Len(nodes)
       /\ sched.status = "ok" => Distinct(sched.result)

---------------------------------------------------------------------------
(* C16: during an execution call the i-th tensor produced by a visited     *)
(* node's transformation is written into the table under the key           *)
(* (that node, i) and under no other key.                                  *)

\* a table that holds every entry node n reads in a forward call, and the
\* state of a call that is about to visit n
TableBefore(n) ==
    [e \in Range(nodes[n].inputs) \cup {<<nodes[n].conditions[i], 0>> :
                                          i \in DOMAIN nodes[n].conditions}
     |-> CHOOSE v \in TensorVals : TRUE]

CallBefore(n) ==
    [status |-> "ok", errnode |-> 0, outs |-> TableBefore(n), jacobian |-> NoJac,
     visits |-> <<>>, returned |-> <<>>, ret |-> [form |-> "none"]]

\* the loop body applied to every transformation node constructed so far
C16_WritesUnderNodeKey ==
    \A n \in Transformations, jac \in BOOLEAN :
        LET st == VisitNode(nodes, CallBefore(n), n, FALSE, jac, Honest)
            mod_in == [i \in DOMAIN nodes[n].inputs |-> TableBefore(n)[nodes[n].inputs[i]]]
            out == ModuleCall(nodes[n], mod_in, FALSE, jac, Honest).out
        IN  st.status = "ok"
            => /\ \A i \in DOMAIN out :
                     /\ <<n, i - 1>> \in DOMAIN st.outs
                     /\ st.outs[<<n, i - 1>>] = out[i]
               /\ (DOMAIN st.outs) \ (DOMAIN TableBefore(n))
                     \subseteq {<<n, i - 1>> : i \in DOMAIN out}

---------------------------------------------------------------------------
(* C17: after any sequence of node constructions, for every node the entry *)
(* at position co of its output-edge list is the (consumer n, input slot   *)
(* ci) pair that consumes its output slot co: n.inputs[ci] = (node, co).   *)

C17_OutputsPositionIsSlot ==
    \A p \in AllNodes :
        \A co \in 0..(Len(nodes[p].outputs) - 1) :
            LET n == nodes[p].outputs[co + 1][1]
                ci == nodes[p].outputs[co + 1][2]
            IN  /\ n \in AllNodes
                /\ ci + 1 \in DOMAIN nodes[n].inputs
                /\ nodes[n].inputs[ci + 1] = <<p, co>>

---------------------------------------------------------------------------
(* C18: constructing a node appends exactly one (new node, input slot)     *)
(* entry to the producer's output-edge list for each input edge of the new *)
(* node and changes nothing else in any existing node: no other list is    *)
(* touched, no entry is removed or reordered, no inputs, conditions or     *)
(* shapes of an existing node change.                                      *)

\* the entries the new node registers with producer p, in input order
Registered(new, p) ==
    LET ins == nodes'[new].inputs
        idx == SelectSeq([i \in DOMAIN ins |-> i], LAMBDA i : ins[i][1] = p)
    IN  [k \in DOMAIN idx |-> <<new, idx[k] - 1>>]

ConstructionStep ==
    (nodes' # nodes)
    => /\ Len(nodes') = Len(nodes) + 1
       /\ nodes'[Len(nodes')].outputs = <<>>
       /\ \A p \in DOMAIN nodes :
             /\ nodes'[p].outputs = nodes[p].outputs \o Registered(Len(nodes'), p)
             /\ [nodes'[p] EXCEPT !.outputs = nodes[p].outputs] = nodes[p]

---------------------------------------------------------------------------
(* C19: assembling a graph from a valid node list that contains            *)
(* ConditionNodes succeeds, and the condition shapes the graph records are *)
(* the declared shapes of its condition nodes, in declaration order.       *)

\* the nodes that take node c as a condition
Conditioned(c) == {n \in AllNodes : c \in Range(nodes[n].conditions)}

\* a valid list with conditions: boundary nodes detected by variant, every
\* condition node conditions some transformation and feeds no input, every
\* other node is on a path to an Output node
ValidConditionedList ==
    /\ asm.condition_nodes # <<>>
    /\ asm.in_nodes # <<>>
    /\ asm.out_nodes # <<>>
    /\ \A i \in DOMAIN asm.out_nodes : nodes[asm.out_nodes[i]].kind = "Output"
    /\ \A n \in AllNodes :
          IF nodes[n].kind = "Condition"
          THEN Conditioned(n) # {} /\ Consumers(n) = {}
          ELSE ConnectedTo(n, asm.out_nodes)

C19_ConditionShapesRecorded ==
    (AssemblyEnded /\ ValidConditionedList)
    => /\ Assembled
       /\ net.dims_c = [i \in DOMAIN asm.condition_nodes |->
                           nodes[asm.condition_nodes[i]].output_dims[1]]

=============================================================================
